---- MODULE Spec2Model ----
(***************************************************************************)
(* Model of KoClipMaskApplicator (libs/flake/KoClipMaskApplicator.h):      *)
(* the xsimd specialisation of applyLuminanceMask (batch loop followed by  *)
(* a call of the scalar fallback for the remaining pixels).                *)
(*                                                                         *)
(* Memory is two byte buffers (quint8 *pixels, quint8 *maskPixels); a      *)
(* 32-bit ARGB pixel is loaded little-endian, so the bytes of a pixel are  *)
(* blue, green, red, alpha.  A 32-bit lane does not fit TLC's integers and *)
(* is kept as [hi |-> top 8 bits, lo |-> low 24 bits].  A float is kept as *)
(* [m |-> 24-bit significand, e |-> exponent], value m * 2^e, and the      *)
(* arithmetic rounds to nearest-even as IEEE-754 binary32 does.            *)
(***************************************************************************)
EXTENDS Integers, Naturals, Sequences, FiniteSets, TLC

\* ------------------------------------------------------------------ bounds
\* largest nPixels of a call (besides the 37-pixel case), pixels allocated
\* behind the range of a call, largest buffer shared by two concurrent calls
MaxPixels == 9
GuardPixels == 1
MaxParPixels == 6
\* period of the pixel pattern of the buffers two calls share
ParPeriod == 2

\* ---------------------------------------------------------- binary32 model
TwoTo12 == 2 ^ 12
TwoTo23 == 2 ^ 23
TwoTo24 == 2 ^ 24

FZero == [m |-> 0, e |-> 0]

RECURSIVE FNormalize(_, _)
FNormalize(m, e) ==
    IF m = 0 THEN FZero
    ELSE IF m >= TwoTo23 THEN [m |-> m, e |-> e]
    ELSE FNormalize(2 * m, e - 1)

\* round-to-nearest-even of (q + r/d) with 0 <= r < d
RoundNearestEven(q, r, d) ==
    IF 2 * r > d \/ (2 * r = d /\ q % 2 = 1) THEN q + 1 ELSE q

\* a significand that rounding carried up to 2^24 is renormalised
FRenorm(m, e) ==
    IF m = TwoTo24 THEN [m |-> TwoTo23, e |-> e + 1] ELSE [m |-> m, e |-> e]

\* xsimd::to_float on a lane holding an integer 0..255 (exact)
to_float(n) == FNormalize(n, 0)

\* binary32 product: the 48-bit product H * 2^24 + L of the significands,
\* computed in 12-bit limbs, rounded to 24 bits
FMul(x, y) ==
    IF x.m = 0 \/ y.m = 0 THEN FZero
    ELSE
      LET a1 == x.m \div TwoTo12   b1 == x.m % TwoTo12
          a2 == y.m \div TwoTo12   b2 == y.m % TwoTo12
          mid == a1 * b2 + a2 * b1
          t == (mid % TwoTo12) * TwoTo12 + b1 * b2
          L == t % TwoTo24
          H == a1 * a2 + (mid \div TwoTo12) + (t \div TwoTo24)
      IN IF H >= TwoTo23
         THEN FRenorm(RoundNearestEven(H, L, TwoTo24), x.e + y.e + 24)
         ELSE FRenorm(RoundNearestEven(2 * H + (L \div TwoTo23),
                                       L % TwoTo23, TwoTo23),
                      x.e + y.e + 23)

\* binary32 sum of two non-negative floats
FAdd(x, y) ==
    IF x.m = 0 THEN y
    ELSE IF y.m = 0 THEN x
    ELSE
      LET big == IF x.e >= y.e THEN x ELSE y
          small == IF x.e >= y.e THEN y ELSE x
          d == big.e - small.e
      IN IF d >= 25 THEN big
         ELSE LET q == small.m \div (2 ^ d)
                  r == small.m % (2 ^ d)
                  S == big.m + q
              IN IF S < TwoTo24
                 THEN FRenorm(RoundNearestEven(S, r, 2 ^ d), big.e)
                 ELSE FRenorm(RoundNearestEven(S \div 2,
                                               (S % 2) * (2 ^ d) + r,
                                               2 ^ (d + 1)),
                              big.e + 1)

\* xsimd::nearbyint_as_int: to the nearest integer, ties to even.  Every
\* value the kernel produces is below 2^24, so e <= 0 whenever m # 0.
nearbyint_as_int(x) ==
    IF x.m = 0 THEN 0
    ELSE IF x.e >= 0 THEN x.m * (2 ^ x.e)
    ELSE IF 0 - x.e >= 25 THEN 0
    ELSE RoundNearestEven(x.m \div (2 ^ (0 - x.e)), x.m % (2 ^ (0 - x.e)),
                          2 ^ (0 - x.e))

\* ------------------------------------------------------- kernel constants
mask == 255
colorChannelsMask == 16777215
\* 0.2125f, 0.7154f, 0.0721f as binary32 values
redLum == [m |-> 14260634, e |-> -26]
greenLum == [m |-> 12002420, e |-> -24]
blueLum == [m |-> 9677098, e |-> -27]

\* ------------------------------------------------------------ 32-bit lanes
\* (w >> 24) & mask, (w >> 16) & mask, (w >> 8) & mask, w & mask
Shr24(w) == w.hi
Shr16(w) == (w.lo \div 65536) % (mask + 1)
Shr8(w) == (w.lo \div 256) % (mask + 1)
Shr0(w) == w.lo % (mask + 1)

\* mutant: the colour mask keeps only 16 bits, so red is cleared
AndOrShl24ShortMask(shape, pixelAlpha_i) ==
    [hi |-> pixelAlpha_i % 256, lo |-> shape.lo % 65536]

\* (shapeData & colorChannelsMask) | (pixelAlpha_i << 24): the shift keeps
\* the low 8 bits of pixelAlpha_i, the mask the low 24 bits of shapeData
AndOrShl24(shape, pixelAlpha_i) ==
    [hi |-> pixelAlpha_i % 256, lo |-> shape.lo % (colorChannelsMask + 1)]

\* mutant: the red and the blue weight are exchanged
LaneMaskValueSwapped(maskWord) ==
    FMul(to_float(Shr24(maskWord)),
         FAdd(FAdd(FMul(blueLum, to_float(Shr16(maskWord))),
                   FMul(greenLum, to_float(Shr8(maskWord)))),
              FMul(redLum, to_float(Shr0(maskWord)))))

\* mutant: the mask's alpha is left out of the product
LaneMaskValueNoAlpha(maskWord) ==
    FAdd(FAdd(FMul(redLum, to_float(Shr16(maskWord))),
              FMul(greenLum, to_float(Shr8(maskWord)))),
         FMul(blueLum, to_float(Shr0(maskWord))))

\* one lane of the loop body, lines 77-85
LaneMaskValue(maskWord) ==
    LET maskAlpha == to_float(Shr24(maskWord))
        maskRed == to_float(Shr16(maskWord))
        maskGreen == to_float(Shr8(maskWord))
        maskBlue == to_float(Shr0(maskWord))
    IN FMul(maskAlpha,
            FAdd(FAdd(FMul(redLum, maskRed), FMul(greenLum, maskGreen)),
                 FMul(blueLum, maskBlue)))

\* mutant: the product is truncated (a plain cast) instead of rounded
LanePixelAlphaTruncated(shape, maskWord) ==
    LET x == FMul(to_float(Shr24(shape)), LaneMaskValue(maskWord))
    IN IF x.m = 0 THEN 0
       ELSE IF x.e >= 0 THEN x.m * (2 ^ x.e)
       ELSE IF 0 - x.e >= 25 THEN 0
       ELSE x.m \div (2 ^ (0 - x.e))

\* mutant: the image pixel's alpha is left out of the product
LanePixelAlphaMaskOnly(shape, maskWord) ==
    nearbyint_as_int(LaneMaskValue(maskWord))

LanePixelAlpha(shape, maskWord) ==
    nearbyint_as_int(FMul(to_float(Shr24(shape)), LaneMaskValue(maskWord)))

LaneResult(shape, maskWord) ==
    AndOrShl24(shape, LanePixelAlpha(shape, maskWord))

\* ------------------------------------------------------------------ memory
\* the four bytes of a lane in memory order (little-endian: B, G, R, A)
WordBytes(w) ==
    << w.lo % 256, (w.lo \div 256) % 256, (w.lo \div 65536) % 256, w.hi >>

\* the quint32 at byte offset ptr of buf
Load32(buf, ptr) ==
    [hi |-> buf[ptr + 4],
     lo |-> buf[ptr + 1] + 256 * buf[ptr + 2] + 65536 * buf[ptr + 3]]

\* uint_v::load_unaligned: size consecutive quint32 starting at ptr
load_unaligned(buf, ptr, size) ==
    [l \in 1..size |-> Load32(buf, ptr + 4 * (l - 1))]

\* uint_v::store_unaligned: the lanes of vec written from ptr on
store_unaligned(buf, ptr, vec) ==
    [b \in 1..Len(buf) |->
        IF b > ptr /\ b <= ptr + 4 * Len(vec)
        THEN WordBytes(vec[((b - 1 - ptr) \div 4) + 1])[((b - 1 - ptr) % 4) + 1]
        ELSE buf[b]]

\* --------------------------------------------- applyLuminanceMask, xsimd
\* mutant: one batch too few when nPixels is a multiple of size
blockShort(nPixels, size) == (nPixels - 1) \div size
block(nPixels, size) == nPixels \div size
\* mutant: the remainder is one pixel too long
block2Long(nPixels, size) == (nPixels % size) + 1
block2(nPixels, size) == nPixels % size
\* mutant: the pointers advance by size bytes instead of size pixels
vectorPixelStrideInBytes(size) == size
vectorPixelStride(size) == 4 * size

\* mutant: every lane is computed from the first lane's mask pixel
BatchStoreEffectFirstMask(px, mk, shape, maskv, pPtr) ==
    [pixels |-> store_unaligned(px, pPtr,
                    [l \in 1..Len(shape) |-> LaneResult(shape[l], maskv[1])]),
     maskPixels |-> mk]

\* mutant: the result is stored through the mask pointer as well
BatchStoreEffectIntoMask(px, mk, shape, maskv, pPtr) ==
    [pixels |-> store_unaligned(px, pPtr,
                    [l \in 1..Len(shape) |-> LaneResult(shape[l], maskv[l])]),
     maskPixels |-> store_unaligned(mk, pPtr,
                    [l \in 1..Len(shape) |-> LaneResult(shape[l], maskv[l])])]

\* lines 77-87: the buffers after the store of one loop iteration
BatchStoreEffect(px, mk, shape, maskv, pPtr) ==
    [pixels |-> store_unaligned(px, pPtr,
                    [l \in 1..Len(shape) |-> LaneResult(shape[l], maskv[l])]),
     maskPixels |-> mk]

\* ------------------------------------------- fallbackLuminanceMask (scalar)
\* Its body is not part of the sources at hand; it is modelled from the
\* description of the scalar path: the same formula, one pixel at a time.
FallbackMaskValue(maskWord) ==
    FMul(to_float(maskWord.hi),
         FAdd(FAdd(FMul(redLum, to_float((maskWord.lo \div 65536) % 256)),
                   FMul(greenLum, to_float((maskWord.lo \div 256) % 256))),
              FMul(blueLum, to_float(maskWord.lo % 256))))

FallbackPixel(shape, maskWord) ==
    [hi |-> nearbyint_as_int(FMul(to_float(shape.hi),
                                  FallbackMaskValue(maskWord))) % 256,
     lo |-> shape.lo]

FallbackStoreEffect(px, mk, pPtr, mPtr) ==
    [pixels |-> store_unaligned(px, pPtr,
                    << FallbackPixel(Load32(px, pPtr), Load32(mk, mPtr)) >>),
     maskPixels |-> mk]

\* the loop of fallbackLuminanceMask over n pixels, as a function
RECURSIVE FallbackLoop(_, _, _, _, _)
FallbackLoop(px, mk, pPtr, mPtr, n) ==
    IF n <= 0 THEN px
    ELSE FallbackLoop(FallbackStoreEffect(px, mk, pPtr, mPtr).pixels, mk,
                      pPtr + 4, mPtr + 4, n - 1)

\* the loop of lines 73-91 over count iterations, as a function
RECURSIVE BatchLoop(_, _, _, _, _, _)
BatchLoop(px, mk, pPtr, mPtr, size, count) ==
    IF count <= 0 THEN px
    ELSE BatchLoop(BatchStoreEffect(px, mk, load_unaligned(px, pPtr, size),
                                    load_unaligned(mk, mPtr, size), pPtr).pixels,
                   mk, pPtr + vectorPixelStride(size),
                   mPtr + vectorPixelStride(size), size, count - 1)

\* one uninterrupted call of applyLuminanceMask: the image buffer it leaves
ApplySerial(px, mk, pPtr, mPtr, nPixels, size) ==
    FallbackLoop(BatchLoop(px, mk, pPtr, mPtr, size, block(nPixels, size)),
                 mk,
                 pPtr + vectorPixelStride(size) * block(nPixels, size),
                 mPtr + vectorPixelStride(size) * block(nPixels, size),
                 block2(nPixels, size))

\* ------------------------------------------------------------------ inputs
\* float_v::size of the instruction sets: 4 (SSE, NEON), 8 (AVX)
BatchWidths == {4, 8}
\* pixel counts of a single call; 37 is the remainder example (37 = 4*8 + 5)
NPixelsChoices == (0..MaxPixels) \cup {37}
AlphaSeeds == {32 * k : k \in 0..7}
ParAlphaSeeds == {0, 192}
ImageColours == << 16777215, 0, 1193046 >>
MaskPalette ==
    << [hi |-> 255, lo |-> 16777215],
       [hi |-> 0, lo |-> 837709],
       [hi |-> 0, lo |-> 16711683],
       [hi |-> 200, lo |-> 66050],
       [hi |-> 200, lo |-> 197122],
       [hi |-> 128, lo |-> 65280] >>
MaskSeeds == 0..(Len(MaskPalette) - 1)
MaskStrides == {0, 1}

\* image pixel k has alpha (aseed + k) mod 256, so 37 pixels from each seed
\* cover every alpha 0..255
ImagePixel(aseed, k) ==
    [hi |-> (aseed + k) % 256, lo |-> ImageColours[((aseed + k) % 3) + 1]]
MaskPixel(mseed, mstride, k) ==
    MaskPalette[((mseed + k * mstride) % Len(MaskPalette)) + 1]

ImageBuffer(aseed, n) ==
    [b \in 1..(4 * n) |->
        WordBytes(ImagePixel(aseed, (b - 1) \div 4))[((b - 1) % 4) + 1]]
MaskBuffer(mseed, mstride, n) ==
    [b \in 1..(4 * n) |->
        WordBytes(MaskPixel(mseed, mstride, (b - 1) \div 4))[((b - 1) % 4) + 1]]

\* ------------------------------------------------------------------- state
Threads == {1, 2}

VARIABLES
    pixels,       \* the image buffer, bytes
    maskPixels,   \* the mask buffer, bytes
    pixels0,      \* the image buffer when the calls started
    maskPixels0,  \* the mask buffer when the calls started
    arg,          \* per call: pixels, maskPixels (byte offsets), nPixels, size
    pc,           \* per call: "off", "loop", "body", "fallback", "done"
    i,            \* per call: the loop counter of line 73
    pixelsPtr,    \* per call: the advancing pixels pointer
    maskPtr,      \* per call: the advancing maskPixels pointer
    shapeData,    \* per call: the loaded image lanes
    maskData,     \* per call: the loaded mask lanes
    fb,           \* per call: the frame of fallbackLuminanceMask
    batches,      \* per call: the pixel index each batch iteration started at
    fbCalls,      \* per call: the calls of fallbackLuminanceMask made
    touched,      \* per call: the pixel indices read or written
    stores        \* per image pixel: how often it was stored

\* the text shape (KoSvgTextShape) and whoever calls it
VARIABLES
    shapeTree,      \* the shape with its child shapes and their texts
    cursorPos,      \* d->cursorPos, the list the last layout left
    textRendering,  \* d->textRendering
    pos,            \* the caller's cursor: << p >>, or << >> for none
    call            \* the last call made: arguments, result, what it did

textVars == << shapeTree, cursorPos, textRendering, pos, call >>

\* the resource page of the bundle wizard (PageResourceChooser)
VARIABLES
    m_bundle,                \* whether an existing bundle is edited
    m_selectedResourcesIds,  \* the ids chosen for the bundle
    m_resourceItemWidget,    \* the ids of the items listed on the right
    selection                \* what the last slot was handed

chooserVars == << m_bundle, m_selectedResourcesIds, m_resourceItemWidget,
                  selection >>

maskVars == << pixels, maskPixels, pixels0, maskPixels0, arg, pc, i,
               pixelsPtr, maskPtr, shapeData, maskData, fb, batches, fbCalls,
               touched, stores >>

vars == << maskVars, textVars, chooserVars >>

NoFrame == [pixels |-> 0, maskPixels |-> 0, nPixels |-> 0, i |-> 0]
NoArg == [pixels |-> 0, maskPixels |-> 0, nPixels |-> 0, size |-> 0]

\* no text shape and no wizard page exist while the compositor is examined
NoCall == [op |-> "none"]
TextOff ==
    /\ shapeTree = << >>
    /\ cursorPos = << >>
    /\ textRendering = "Auto"
    /\ pos = << >>
    /\ call = NoCall
ChooserOff ==
    /\ m_bundle = FALSE
    /\ m_selectedResourcesIds = << >>
    /\ m_resourceItemWidget = << >>
    /\ selection = << >>

\* no call of the compositor while the text shape or the page is examined
MaskOff ==
    /\ pixels = << >>
    /\ maskPixels = << >>
    /\ pixels0 = << >>
    /\ maskPixels0 = << >>
    /\ arg = [t \in Threads |-> NoArg]
    /\ pc = [t \in Threads |-> "off"]
    /\ i = [t \in Threads |-> 0]
    /\ pixelsPtr = [t \in Threads |-> 0]
    /\ maskPtr = [t \in Threads |-> 0]
    /\ shapeData = [t \in Threads |-> << >>]
    /\ maskData = [t \in Threads |-> << >>]
    /\ fb = [t \in Threads |-> NoFrame]
    /\ batches = [t \in Threads |-> << >>]
    /\ fbCalls = [t \in Threads |-> << >>]
    /\ touched = [t \in Threads |-> {}]
    /\ stores = << >>


\* the buffers two calls share: alpha and mask repeat with ParPeriod, the
\* colour of the image pixels does not
ParImageBuffer(aseed, n) ==
    [b \in 1..(4 * n) |->
        WordBytes([hi |-> ImagePixel(aseed, ((b - 1) \div 4) % ParPeriod).hi,
                   lo |-> ImagePixel(aseed, (b - 1) \div 4).lo])[((b - 1) % 4) + 1]]
ParMaskBuffer(mseed, mstride, n) ==
    [b \in 1..(4 * n) |->
        WordBytes(MaskPixel(mseed, mstride,
                            ((b - 1) \div 4) % ParPeriod))[((b - 1) % 4) + 1]]

InitMemory(image, maskImage, total) ==
    /\ pixels = image
    /\ maskPixels = maskImage
    /\ pixels0 = pixels
    /\ maskPixels0 = maskPixels
    /\ stores = [k \in 0..(total - 1) |-> 0]

InitCalls(a) ==
    /\ arg = a
    /\ pc = [t \in Threads |-> IF a[t].size = 0 THEN "off" ELSE "loop"]
    /\ i = [t \in Threads |-> 0]
    /\ pixelsPtr = [t \in Threads |-> a[t].pixels]
    /\ maskPtr = [t \in Threads |-> a[t].maskPixels]
    /\ shapeData = [t \in Threads |-> << >>]
    /\ maskData = [t \in Threads |-> << >>]
    /\ fb = [t \in Threads |-> NoFrame]
    /\ batches = [t \in Threads |-> << >>]
    /\ fbCalls = [t \in Threads |-> << >>]
    /\ touched = [t \in Threads |-> {}]

\* one call over the whole range
Init ==
    \E n \in NPixelsChoices, size \in BatchWidths, aseed \in AlphaSeeds,
       mseed \in MaskSeeds, mstride \in MaskStrides :
        /\ InitMemory(ImageBuffer(aseed, n + GuardPixels),
                      MaskBuffer(mseed, mstride, n + GuardPixels),
                      n + GuardPixels)
        /\ InitCalls([t \in Threads |->
              IF t = 1
              THEN [pixels |-> 0, maskPixels |-> 0, nPixels |-> n, size |-> size]
              ELSE NoArg])
        /\ TextOff
        /\ ChooserOff

\* two calls on the sub-ranges [0, k) and [k, n) of the same buffers
InitPar ==
    \E n \in 0..MaxParPixels, size1 \in BatchWidths, size2 \in BatchWidths,
       aseed \in ParAlphaSeeds, mseed \in MaskSeeds, mstride \in MaskStrides :
      \E k \in 0..n :
        /\ InitMemory(ParImageBuffer(aseed, n + GuardPixels),
                      ParMaskBuffer(mseed, mstride, n + GuardPixels),
                      n + GuardPixels)
        /\ InitCalls([t \in Threads |->
              IF t = 1
              THEN [pixels |-> 0, maskPixels |-> 0, nPixels |-> k,
                    size |-> size1]
              ELSE [pixels |-> 4 * k, maskPixels |-> 4 * k,
                    nPixels |-> n - k, size |-> size2]])
        /\ TextOff
        /\ ChooserOff

PixelRange(ptr, count) == { (ptr \div 4) + l : l \in 0..(count - 1) }

\* Each step is its control part (the guard and the new program position,
\* counters and pointers) and its data part (the buffers and the records of
\* what was accessed).

\* lines 73-75: the loop test passes and both vectors are loaded
BatchLoadCtl(t) ==
    /\ pc[t] = "loop"
    /\ i[t] < block(arg[t].nPixels, arg[t].size)
    /\ pc' = [pc EXCEPT ![t] = "body"]
    /\ UNCHANGED << i, pixelsPtr, maskPtr, fb >>

BatchLoad(t) ==
    /\ BatchLoadCtl(t)
    /\ UNCHANGED << textVars, chooserVars >>
    /\ shapeData' = [shapeData EXCEPT
                        ![t] = load_unaligned(pixels, pixelsPtr[t], arg[t].size)]
    /\ maskData' = [maskData EXCEPT
                        ![t] = load_unaligned(maskPixels, maskPtr[t], arg[t].size)]
    /\ touched' = [touched EXCEPT
                        ![t] = @ \cup PixelRange(pixelsPtr[t], arg[t].size)
                                 \cup PixelRange(maskPtr[t], arg[t].size)]
    /\ batches' = [batches EXCEPT ![t] = Append(@, pixelsPtr[t] \div 4)]
    /\ UNCHANGED << pixels, maskPixels, pixels0, maskPixels0, arg, fbCalls,
                    stores >>

\* lines 77-90: the lanes are computed and stored, the pointers advance
BatchStoreCtl(t) ==
    /\ pc[t] = "body"
    /\ pixelsPtr' = [pixelsPtr EXCEPT ![t] = @ + vectorPixelStride(arg[t].size)]
    /\ maskPtr' = [maskPtr EXCEPT ![t] = @ + vectorPixelStride(arg[t].size)]
    /\ i' = [i EXCEPT ![t] = @ + 1]
    /\ pc' = [pc EXCEPT ![t] = "loop"]
    /\ UNCHANGED fb

BatchStore(t) ==
    /\ BatchStoreCtl(t)
    /\ UNCHANGED << textVars, chooserVars >>
    /\ LET after == BatchStoreEffect(pixels, maskPixels, shapeData[t],
                                     maskData[t], pixelsPtr[t])
       IN /\ pixels' = after.pixels
          /\ maskPixels' = after.maskPixels
    /\ stores' = [k \in DOMAIN stores |->
                    IF k \in PixelRange(pixelsPtr[t], arg[t].size)
                    THEN stores[k] + 1 ELSE stores[k]]
    /\ UNCHANGED << pixels0, maskPixels0, arg, shapeData, maskData, batches,
                    fbCalls, touched >>

\* line 93: the loop is over, the fallback is called for the remainder
CallFallbackCtl(t) ==
    /\ pc[t] = "loop"
    /\ ~(i[t] < block(arg[t].nPixels, arg[t].size))
    /\ fb' = [fb EXCEPT ![t] = [pixels |-> pixelsPtr[t],
                                maskPixels |-> maskPtr[t],
                                nPixels |-> block2(arg[t].nPixels, arg[t].size),
                                i |-> 0]]
    /\ pc' = [pc EXCEPT ![t] = "fallback"]
    /\ UNCHANGED << i, pixelsPtr, maskPtr >>

CallFallback(t) ==
    /\ CallFallbackCtl(t)
    /\ UNCHANGED << textVars, chooserVars >>
    /\ fbCalls' = [fbCalls EXCEPT ![t] = Append(@, fb'[t])]
    /\ UNCHANGED << pixels, maskPixels, pixels0, maskPixels0, arg, shapeData,
                    maskData, batches, touched, stores >>

\* fallbackLuminanceMask: one pixel of its loop
FallbackStepCtl(t) ==
    /\ pc[t] = "fallback"
    /\ fb[t].i < fb[t].nPixels
    /\ fb' = [fb EXCEPT ![t].i = @ + 1]
    /\ UNCHANGED << pc, i, pixelsPtr, maskPtr >>

FallbackStep(t) ==
    /\ FallbackStepCtl(t)
    /\ UNCHANGED << textVars, chooserVars >>
    /\ LET p == fb[t].pixels + 4 * fb[t].i
           q == fb[t].maskPixels + 4 * fb[t].i
           after == FallbackStoreEffect(pixels, maskPixels, p, q)
       IN /\ pixels' = after.pixels
          /\ maskPixels' = after.maskPixels
          /\ touched' = [touched EXCEPT ![t] = @ \cup {p \div 4, q \div 4}]
          /\ stores' = [stores EXCEPT ![p \div 4] = @ + 1]
    /\ UNCHANGED << pixels0, maskPixels0, arg, shapeData, maskData, batches,
                    fbCalls >>

\* fallbackLuminanceMask and applyLuminanceMask return
FallbackReturnCtl(t) ==
    /\ pc[t] = "fallback"
    /\ ~(fb[t].i < fb[t].nPixels)
    /\ pc' = [pc EXCEPT ![t] = "done"]
    /\ UNCHANGED << i, pixelsPtr, maskPtr, fb >>

FallbackReturn(t) ==
    /\ FallbackReturnCtl(t)
    /\ UNCHANGED << textVars, chooserVars >>
    /\ UNCHANGED << pixels, maskPixels, pixels0, maskPixels0, arg, shapeData,
                    maskData, batches, fbCalls, touched, stores >>

Next ==
    \E t \in Threads :
        \/ BatchLoad(t)
        \/ BatchStore(t)
        \/ CallFallback(t)
        \/ FallbackStep(t)
        \/ FallbackReturn(t)

\* the control part of a step: every step of Next is one, and one is
\* possible exactly when a step of Next is
ctl == << pc, i, pixelsPtr, maskPtr, fb >>
Control ==
    \E t \in Threads :
        \/ BatchLoadCtl(t)
        \/ BatchStoreCtl(t)
        \/ CallFallbackCtl(t)
        \/ FallbackStepCtl(t)
        \/ FallbackReturnCtl(t)

Spec == Init /\ [][Next]_vars
SpecPar == InitPar /\ [][Next]_vars
\* a call that can take a step eventually takes one (the thread running it
\* is scheduled; nothing in the call blocks)
SpecFair == Init /\ [][Next]_vars /\ WF_ctl(Control)

\* ------------------------------------------- the template without vectors
\* KoClipMaskApplicator<_impl, EnableDummyType>: the build has no xsimd, or
\* the architecture is the generic one

\* where in the buffers the caller's range may begin, in pixels
RangeStarts == {0, 1}

GenericFrameFromStart(a) ==
    [pixels |-> 0, maskPixels |-> a.maskPixels, nPixels |-> a.nPixels,
     i |-> 0]

\* lines 45-47: the arguments of the call of fallbackLuminanceMask
GenericFrame(a) ==
    [pixels |-> a.pixels, maskPixels |-> a.maskPixels, nPixels |-> a.nPixels,
     i |-> 0]

InitGeneric ==
    \E n \in 0..MaxPixels, pb \in RangeStarts, mb \in RangeStarts,
       aseed \in AlphaSeeds, mseed \in MaskSeeds, mstride \in MaskStrides :
        /\ InitMemory(ImageBuffer(aseed, pb + n + GuardPixels),
                      MaskBuffer(mseed, mstride, mb + n + GuardPixels),
                      pb + n + GuardPixels)
        /\ arg = [t \in Threads |->
                    IF t = 1
                    THEN [pixels |-> 4 * pb, maskPixels |-> 4 * mb,
                          nPixels |-> n, size |-> 0]
                    ELSE NoArg]
        /\ pc = [t \in Threads |-> IF t = 1 THEN "generic" ELSE "off"]
        /\ i = [t \in Threads |-> 0]
        /\ pixelsPtr = [t \in Threads |-> arg[t].pixels]
        /\ maskPtr = [t \in Threads |-> arg[t].maskPixels]
        /\ shapeData = [t \in Threads |-> << >>]
        /\ maskData = [t \in Threads |-> << >>]
        /\ fb = [t \in Threads |-> NoFrame]
        /\ batches = [t \in Threads |-> << >>]
        /\ fbCalls = [t \in Threads |-> << >>]
        /\ touched = [t \in Threads |-> {}]
        /\ TextOff
        /\ ChooserOff

\* lines 45-47: applyLuminanceMask is the call of the fallback
GenericCall(t) ==
    /\ pc[t] = "generic"
    /\ fb' = [fb EXCEPT ![t] = GenericFrame(arg[t])]
    /\ pc' = [pc EXCEPT ![t] = "fallback"]
    /\ fbCalls' = [fbCalls EXCEPT ![t] = Append(@, fb'[t])]
    /\ UNCHANGED << pixels, maskPixels, pixels0, maskPixels0, arg, i,
                    pixelsPtr, maskPtr, shapeData, maskData, batches, touched,
                    stores, textVars, chooserVars >>

NextGeneric ==
    \E t \in Threads :
        \/ GenericCall(t)
        \/ FallbackStep(t)
        \/ FallbackReturn(t)

SpecGeneric == InitGeneric /\ [][NextGeneric]_vars

\* ------------------------------------------------------- the text shape
\* KoSvgTextShape.cpp. A shape is [chunk, text, shapes]: whether it is a
\* KoSvgTextChunkShape, how many characters its own text has, its child
\* shapes. The text shape itself is the root. A shape is named by the path of
\* child numbers that leads to it from the root, << >> being the root.
\* characters of one chunk at the start
ChunkTexts == {0, 1}
\* characters of the whole text: insertText stops there
MaxChars == 3
\* entries of d->cursorPos
MaxCursorPos == 2
\* characters handed to insertText, removeText
TextLens == {1}

Leaf(n) == [chunk |-> TRUE, text |-> n, shapes |-> << >>]
Span(children) == [chunk |-> TRUE, text |-> 0, shapes |-> children]
OtherShape == [chunk |-> FALSE, text |-> 0, shapes |-> << >>]

TextShapes ==
    { Leaf(a) : a \in ChunkTexts }
    \cup { Span(<< Leaf(a), Leaf(b) >>) :
             a \in ChunkTexts, b \in ChunkTexts }
    \cup { Span(<< Span(<< Leaf(a) >>), Leaf(b) >>) :
             a \in ChunkTexts, b \in ChunkTexts }
    \cup { Span(<< OtherShape, Leaf(a) >>) : a \in ChunkTexts }

\* a list of cursor positions as a layout leaves it: position p stands at
\* character index p
CursorPositions(n) == [p \in 1..n |-> [index |-> p - 1]]

\* what a CursorPos holds that was never assigned, or was read from outside
\* the list
IndeterminateIndices == 0..MaxCursorPos

shapeCount(shape) == Len(shape.shapes)

\* layoutInterface()->numChars(true): the characters of a chunk and of the
\* chunks below it
RECURSIVE numChars(_)
RECURSIVE SumChars(_, _)
SumChars(shapes, k) ==
    IF k > Len(shapes) THEN 0
    ELSE numChars(shapes[k]) + SumChars(shapes, k + 1)
numChars(shape) ==
    IF ~shape.chunk THEN 0
    ELSE IF shapeCount(shape) = 0 THEN shape.text
    ELSE SumChars(shape.shapes, 1)

ChunkHoldsUpToEnd(currentIndex, length, sought) ==
    sought >= currentIndex /\ sought <= currentIndex + length

\* line 172: the sought character lies in the chunk that begins at
\* currentIndex
ChunkHolds(currentIndex, length, sought) ==
    sought >= currentIndex /\ sought < currentIndex + length

NotFound(currentIndex) ==
    [found |-> FALSE, shape |-> << >>, currentIndex |-> currentIndex]

\* lines 162-188; the result is the chunk found, if any, and what
\* currentIndex, passed by reference, has become
RECURSIVE findTextChunkForIndex(_, _, _)
RECURSIVE FindInShapes(_, _, _, _)
FindInShapes(shapes, k, currentIndex, sought) ==
    IF k > Len(shapes) THEN NotFound(currentIndex)
    ELSE LET r == findTextChunkForIndex(shapes[k], currentIndex, sought)
         IN IF r.found
            THEN [r EXCEPT !.shape = << k >> \o @]
            ELSE FindInShapes(shapes, k + 1, r.currentIndex, sought)
findTextChunkForIndex(rootShape, currentIndex, sought) ==
    IF ~rootShape.chunk THEN NotFound(currentIndex)
    ELSE IF shapeCount(rootShape) = 0
    THEN LET length == numChars(rootShape)
         IN IF ChunkHolds(currentIndex, length, sought)
            THEN [found |-> TRUE, shape |-> << >>,
                  currentIndex |-> currentIndex]
            ELSE NotFound(currentIndex + length)
    ELSE FindInShapes(rootShape.shapes, 1, currentIndex, sought)

RECURSIVE ShapeAt(_, _)
ShapeAt(shape, path) ==
    IF path = << >> THEN shape
    ELSE ShapeAt(shape.shapes[Head(path)], Tail(path))

\* the shape after the text of the chunk at path has become n characters
RECURSIVE WithText(_, _, _)
WithText(shape, path, n) ==
    IF path = << >> THEN [shape EXCEPT !.text = n]
    ELSE [shape EXCEPT !.shapes[Head(path)] = WithText(@, Tail(path), n)]

qMin(a, b) == IF a < b THEN a ELSE b
qMax(a, b) == IF a > b THEN a ELSE b

shapeChangedStrokeOnly(type) ==
    IF type \in {"StrokeChanged", "BackgroundChanged"} THEN 1 ELSE 0

\* lines 71-78: how many relayouts a change of this type causes
shapeChanged(type) ==
    IF type \in {"StrokeChanged", "BackgroundChanged", "ContentChanged"}
    THEN 1 ELSE 0

\* the positions a caller may pass: below, inside and above the list
CallerPositions == (0 - 2)..(MaxCursorPos + 1)

\* a pointer to a chunk is << >> for nullptr and << path >> otherwise
\* lines 206-209 and 232-235: the chunk found, or the shape itself when it
\* has no child shapes
ResolveChunk(shape, index) ==
    LET r == findTextChunkForIndex(shape, 0, index)
    IN IF r.found THEN << r.shape >>
       ELSE IF shapeCount(shape) = 0 THEN << << >> >>
       ELSE << >>

\* lines 196-204: the position is usable, the entry of d->cursorPos read,
\* the character index sought
InsertPosUsable(p) == p > (0 - 1) /\ cursorPos # << >>
InsertRead(p) ==
    IF InsertPosUsable(p) THEN << qMin(p, Len(cursorPos) - 1) >> ELSE << >>
InsertIndex(p) ==
    IF InsertPosUsable(p)
    THEN LET index == cursorPos[InsertRead(p)[1] + 1].index
             totalSize == numChars(shapeTree)
         IN IF index >= totalSize THEN totalSize - 1 ELSE index
    ELSE 0

\* what relayout leaves in d->cursorPos
Relayout(relayouts) ==
    IF relayouts = 0 THEN cursorPos' = cursorPos
    ELSE \E n \in 0..MaxCursorPos : cursorPos' = CursorPositions(n)

\* what a call leaves in the record of the last call: the entry of
\* d->cursorPos it read (<< >> for none), the chunk it resolved, whether it
\* edited the text, and notifyChanged(), shapeChangedPriv() and relayout()
Called(op, p, n, read, chunkShape, relayouts) ==
    [op |-> op, pos |-> p, n |-> n, size |-> Len(cursorPos),
     succes |-> chunkShape # << >>,
     read |-> read,
     chunkShape |-> chunkShape,
     edits |-> IF chunkShape # << >> THEN 1 ELSE 0,
     notifyChanged |-> IF chunkShape # << >> THEN 1 ELSE 0,
     changes |-> IF chunkShape # << >> THEN << "ContentChanged" >>
                 ELSE << >>,
     relayouts |-> relayouts]

\* lines 190-219. Where in the chunk the text goes (lines 212-213) is left
\* open: a text is its number of characters.
insertText(p, n) ==
    /\ shapeTree # << >>
    /\ numChars(shapeTree) + n <= MaxChars
    /\ LET chunkShape == ResolveChunk(shapeTree, InsertIndex(p))
           succes == chunkShape # << >>
           relayouts == IF succes THEN shapeChanged("ContentChanged") ELSE 0
       IN /\ shapeTree' =
                IF succes
                THEN WithText(shapeTree, chunkShape[1],
                              ShapeAt(shapeTree, chunkShape[1]).text + n)
                ELSE shapeTree
          /\ Relayout(relayouts)
          /\ call' = Called("insertText", p, n, InsertRead(p), chunkShape,
                            relayouts)
    /\ UNCHANGED << textRendering, pos, maskVars, chooserVars >>

\* line 224: removeText goes on
RemoveGoesOn(p) == ~(p < (0 - 1) \/ cursorPos = << >>)

\* lines 221-242. Line 227 reads d->cursorPos at qMin(pos, size - 1); an
\* index outside the list yields an indeterminate CursorPos. How many
\* characters the chunk loses (lines 238-239) is left open.
removeText(p, length) ==
    /\ shapeTree # << >>
    /\ IF ~RemoveGoesOn(p)
       THEN /\ call' = Called("removeText", p, length, << >>, << >>, 0)
            /\ UNCHANGED << shapeTree, cursorPos >>
       ELSE LET at == qMin(p, Len(cursorPos) - 1)
                inside == at \in 0..(Len(cursorPos) - 1)
            IN \E index \in IF inside THEN {cursorPos[at + 1].index}
                            ELSE IndeterminateIndices :
                 LET chunkShape == ResolveChunk(shapeTree, index)
                     succes == chunkShape # << >>
                     relayouts == IF succes
                                  THEN shapeChanged("ContentChanged") ELSE 0
                 IN /\ IF succes
                       THEN LET text == ShapeAt(shapeTree, chunkShape[1]).text
                            IN \E k \in 0..qMin(length, text) :
                                 shapeTree' = WithText(shapeTree,
                                                       chunkShape[1], text - k)
                       ELSE shapeTree' = shapeTree
                    /\ Relayout(relayouts)
                    /\ call' = Called("removeText", p, length, << at >>,
                                      chunkShape, relayouts)
    /\ UNCHANGED << textRendering, pos, maskVars, chooserVars >>

\* a text shape with some text and some layout, no call made yet
InitText ==
    /\ shapeTree \in TextShapes
    /\ \E n \in 0..MaxCursorPos : cursorPos = CursorPositions(n)
    /\ textRendering = "Auto"
    /\ pos = << >>
    /\ call = NoCall
    /\ MaskOff
    /\ ChooserOff

NextText ==
    \E p \in CallerPositions, n \in TextLens :
        \/ insertText(p, n)
        \/ removeText(p, n)

SpecText == InitText /\ [][NextText]_vars

\* ------------------------------- the cursor and the text-rendering hint
nextPosPastEnd(p) ==
    IF cursorPos = << >> THEN 0 - 1
    ELSE qMin(p + 1, Len(cursorPos))

\* lines 91-97
nextPos(p) ==
    IF cursorPos = << >> THEN 0 - 1
    ELSE qMin(p + 1, Len(cursorPos) - 1)

\* lines 99-105
previousPos(p) ==
    IF cursorPos = << >> THEN 0 - 1
    ELSE qMax(p - 1, 0)

TextRenderings ==
    {"Auto", "OptimizeSpeed", "OptimizeLegibility", "GeometricPrecision"}

\* the strings a caller may pass: the four keywords, and others
RenderingStrings ==
    {"auto", "optimizeSpeed", "optimizeLegibility", "geometricPrecision",
     "", "Auto", "optimizespeed", "crispEdges"}

\* lines 344-355: the value d->textRendering gets
setTextRenderingFromString(string) ==
    IF string = "optimizeSpeed" THEN "OptimizeSpeed"
    ELSE IF string = "optimizeLegibility" THEN "OptimizeLegibility"
    ELSE IF string = "geometricPrecision" THEN "GeometricPrecision"
    ELSE "Auto"

textRenderingStringLegible(rendering) ==
    IF rendering = "OptimizeSpeed" THEN "optimizeLegibility"
    ELSE IF rendering = "OptimizeLegibility" THEN "optimizeLegibility"
    ELSE IF rendering = "GeometricPrecision" THEN "geometricPrecision"
    ELSE "auto"

\* lines 357-368, of the value d->textRendering has
textRenderingString(rendering) ==
    IF rendering = "OptimizeSpeed" THEN "optimizeSpeed"
    ELSE IF rendering = "OptimizeLegibility" THEN "optimizeLegibility"
    ELSE IF rendering = "GeometricPrecision" THEN "geometricPrecision"
    ELSE "auto"

\* the caller moves its cursor forward: pos = shape->nextPos(pos)
NextPos ==
    /\ pos # << >>
    /\ pos' = << nextPos(pos[1]) >>
    /\ call' = [op |-> "nextPos", pos |-> pos[1], from |-> call.from,
                result |-> pos'[1]]
    /\ UNCHANGED << shapeTree, cursorPos, textRendering, maskVars,
                    chooserVars >>

\* the caller moves its cursor back: pos = shape->previousPos(pos)
PreviousPos ==
    /\ pos # << >>
    /\ pos' = << previousPos(pos[1]) >>
    /\ call' = [op |-> "previousPos", pos |-> pos[1], from |-> call.from,
                result |-> pos'[1]]
    /\ UNCHANGED << shapeTree, cursorPos, textRendering, maskVars,
                    chooserVars >>

SetTextRenderingFromString(string) ==
    /\ textRendering' = setTextRenderingFromString(string)
    /\ call' = [op |-> "setTextRenderingFromString", string |-> string,
                from |-> call.from, before |-> textRendering]
    /\ UNCHANGED << shapeTree, cursorPos, pos, maskVars, chooserVars >>

\* setTextRenderingFromString(textRenderingString())
RestoreTextRendering ==
    /\ textRendering' =
           setTextRenderingFromString(textRenderingString(textRendering))
    /\ call' = [op |-> "restoreTextRendering",
                string |-> textRenderingString(textRendering),
                from |-> call.from, before |-> textRendering]
    /\ UNCHANGED << shapeTree, cursorPos, pos, maskVars, chooserVars >>

\* a laid-out text shape and a caller whose cursor is at some position,
\* inside the list of cursor positions or not
InitCursor ==
    /\ shapeTree = Leaf(MaxCursorPos)
    /\ \E n \in 0..MaxCursorPos : cursorPos = CursorPositions(n)
    /\ textRendering \in TextRenderings
    /\ \E p \in CallerPositions :
         /\ pos = << p >>
         /\ call = [op |-> "none", from |-> p]
    /\ MaskOff
    /\ ChooserOff

NextCursor ==
    \/ NextPos
    \/ PreviousPos
    \/ \E string \in RenderingStrings : SetTextRenderingFromString(string)
    \/ RestoreTextRendering

SpecCursor == InitCursor /\ [][NextCursor]_vars

\* ------------------------------------------- the resource chooser page
\* page_resource_chooser.cpp. A resource is its id; a list item is the id it
\* carries.
\* resources known to the resource models
MaxResources == 3
\* resources of one type stored in the bundle that is edited
MaxBundleEntries == 2
\* rows, or items, selected at once
MaxSelected == 2

ResourceIds == 1..MaxResources
ResourceTypes == << "brushes", "patterns" >>
ResourceTypeOf(id) == IF id = MaxResources THEN "patterns" ELSE "brushes"

\* the sequences over S of at most n elements
SeqsUpTo(S, n) == UNION { [1..l -> S] : l \in 0..n }

\* lines 88-97, for one resource type: bestMatch answers every resource the
\* bundle stores with a resource of that type, or with none (0)
BundleMatches(type) ==
    SeqsUpTo({0} \cup { id \in ResourceIds : ResourceTypeOf(id) = type },
             MaxBundleEntries)

RECURSIVE AppendMatches(_, _, _)
AppendMatches(ids, matches, k) ==
    IF k > Len(matches) THEN ids
    ELSE AppendMatches(IF matches[k] # 0 THEN Append(ids, matches[k]) ELSE ids,
                       matches, k + 1)

contains(list, id) == \E k \in 1..Len(list) : list[k] = id

RECURSIVE removeAll(_, _)
removeAll(list, id) ==
    IF list = << >> THEN << >>
    ELSE IF Head(list) = id THEN removeAll(Tail(list), id)
    ELSE << Head(list) >> \o removeAll(Tail(list), id)

\* sortItems(): the items in the order of their texts, which is taken to be
\* the order of their ids
RECURSIVE sortItems(_)
sortItems(items) ==
    IF items = << >> THEN << >>
    ELSE LET least == CHOOSE k \in 1..Len(items) :
                         \A l \in 1..Len(items) : items[k] <= items[l]
         IN << items[least] >>
            \o sortItems([l \in 1..(Len(items) - 1) |->
                            IF l < least THEN items[l] ELSE items[l + 1]])

\* lines 163-184: the loop over the selected rows, from row k on
RECURSIVE AddSelected(_, _, _, _)
AddSelected(ids, items, list, k) ==
    IF k > Len(list) THEN [ids |-> ids, items |-> items]
    ELSE IF ~contains(ids, list[k])
    THEN AddSelected(Append(ids, list[k]), Append(items, list[k]), list, k + 1)
    ELSE AddSelected(ids, items, list, k + 1)

\* lines 194-218 and 225-249: the loop over the rows of the resource model
RECURSIVE ListSelected(_, _, _)
ListSelected(ids, type, id) ==
    IF id > MaxResources THEN << >>
    ELSE (IF ResourceTypeOf(id) = type /\ contains(ids, id)
          THEN << id >> ELSE << >>)
         \o ListSelected(ids, type, id + 1)

\* lines 264-268: the loop over the selected items, from item k on
RECURSIVE RemoveItems(_, _, _, _)
RemoveItems(ids, items, selected, k) ==
    IF k > Len(selected) THEN [ids |-> ids, items |-> items]
    ELSE RemoveItems(removeAll(ids, selected[k]),
                     removeAll(items, selected[k]), selected, k + 1)

\* lines 36-99: the page after its construction, for a new bundle or for an
\* existing one
InitChooser ==
    /\ m_bundle \in BOOLEAN
    /\ IF m_bundle
       THEN \E first \in BundleMatches(ResourceTypes[1]),
               second \in BundleMatches(ResourceTypes[2]) :
              m_selectedResourcesIds =
                  AppendMatches(AppendMatches(<< >>, first, 1), second, 1)
       ELSE m_selectedResourcesIds = << >>
    /\ m_resourceItemWidget = << >>
    /\ selection = << >>
    /\ MaskOff
    /\ TextOff

\* lines 156-187
slotResourcesSelectionChanged(list) ==
    /\ LET added == AddSelected(m_selectedResourcesIds, m_resourceItemWidget,
                                list, 1)
       IN /\ m_selectedResourcesIds' = added.ids
          /\ m_resourceItemWidget' = sortItems(added.items)
    /\ selection' = << "slotResourcesSelectionChanged", list >>
    /\ UNCHANGED << m_bundle, maskVars, textVars >>

\* lines 189-258
slotresourceTypeSelected(type) ==
    /\ m_resourceItemWidget' =
           sortItems(ListSelected(m_selectedResourcesIds, type, 1))
    /\ selection' = << "slotresourceTypeSelected", type >>
    /\ UNCHANGED << m_bundle, m_selectedResourcesIds, maskVars, textVars >>

\* lines 260-271; selected is m_resourceItemWidget->selectedItems(), some
\* items of the list widget
slotRemoveSelected(selected) ==
    /\ \A k \in 1..Len(selected) : contains(m_resourceItemWidget, selected[k])
    /\ \A k, l \in 1..Len(selected) : k # l => selected[k] # selected[l]
    /\ LET removed == RemoveItems(m_selectedResourcesIds,
                                  m_resourceItemWidget, selected, 1)
       IN /\ m_selectedResourcesIds' = removed.ids
          /\ m_resourceItemWidget' = removed.items
    /\ selection' = << "slotRemoveSelected", selected >>
    /\ UNCHANGED << m_bundle, maskVars, textVars >>

\* the rows of one type selected in the preview
PreviewSelections ==
    UNION { SeqsUpTo({ id \in ResourceIds : ResourceTypeOf(id) = type },
                     MaxSelected) :
            type \in { ResourceTypes[k] : k \in 1..Len(ResourceTypes) } }

NextChooser ==
    \/ \E list \in PreviewSelections : slotResourcesSelectionChanged(list)
    \/ \E k \in 1..Len(ResourceTypes) :
           slotresourceTypeSelected(ResourceTypes[k])
    \/ \E selected \in SeqsUpTo(ResourceIds, MaxSelected) :
           slotRemoveSelected(selected)

SpecChooser == InitChooser /\ [][NextChooser]_vars

\* ================================================================== claims
Pixel(buf, k) == Load32(buf, 4 * k)
Done(t) == pc[t] = "done"
CallBase(t) == arg[t].pixels \div 4
CallRange(t) == { CallBase(t) + l : l \in 0..(arg[t].nPixels - 1) }
\* pixel k was covered by a batch iteration of call t
InBatch(t, k) ==
    \E j \in 1..Len(batches[t]) :
        batches[t][j] <= k /\ k < batches[t][j] + arg[t].size
\* pixel k was covered by the fallback call of call t
InTail(t, k) ==
    \E j \in 1..Len(fbCalls[t]) :
        /\ fbCalls[t][j].pixels \div 4 <= k
        /\ k < (fbCalls[t][j].pixels \div 4) + fbCalls[t][j].nPixels
AlphaChanged(k) == Pixel(pixels, k).hi # Pixel(pixels0, k).hi

\* C1: at every moment of a call, the low 24 bits (red, green, blue) of
\* every image pixel are those it had before the call, on the vector path
\* and on the scalar path: only alpha bytes change.
C1_AlphaOnly ==
    \A k \in DOMAIN stores : Pixel(pixels, k).lo = Pixel(pixels0, k).lo

\* a finished call that changed the alpha of a coloured pixel in a batch and
\* of one in the scalar tail
C1_Witness ==
    /\ Done(1)
    /\ \E k \in CallRange(1) :
          InBatch(1, k) /\ AlphaChanged(k) /\ Pixel(pixels0, k).lo >= 65536
    /\ \E k \in CallRange(1) :
          InTail(1, k) /\ AlphaChanged(k) /\ Pixel(pixels0, k).lo >= 65536

\* the real-number product a * mA * (0.2125 r + 0.7154 g + 0.0721 b) as
\* q + rem / 10000, in integers
ExactProduct(a, m) ==
    LET L == 2125 * ((m.lo \div 65536) % 256) + 7154 * ((m.lo \div 256) % 256)
             + 721 * (m.lo % 256)
        c == a * m.hi
    IN [q |-> c * (L \div 10000) + ((c * (L % 10000)) \div 10000),
        rem |-> (c * (L % 10000)) % 10000]
ExactRoundHalfEven(a, m) ==
    RoundNearestEven(ExactProduct(a, m).q, ExactProduct(a, m).rem, 10000)
ExactRoundHalfAway(a, m) ==
    IF 2 * ExactProduct(a, m).rem >= 10000
    THEN ExactProduct(a, m).q + 1 ELSE ExactProduct(a, m).q

\* the same product evaluated in binary32, in the order of the source
Binary32Product(a, m) ==
    FMul(to_float(a),
         FMul(to_float(m.hi),
              FAdd(FAdd(FMul(redLum, to_float((m.lo \div 65536) % 256)),
                        FMul(greenLum, to_float((m.lo \div 256) % 256))),
                   FMul(blueLum, to_float(m.lo % 256)))))

\* C2 as stated: the alpha stored for a processed pixel is the low 8 bits of
\* the rounded real-number product (under either rounding of halves).
C2_ExactProductStored ==
    \A k \in DOMAIN stores :
        stores[k] = 1 =>
            \/ Pixel(pixels, k).hi =
                 ExactRoundHalfEven(Pixel(pixels0, k).hi, Pixel(maskPixels0, k)) % 256
            \/ Pixel(pixels, k).hi =
                 ExactRoundHalfAway(Pixel(pixels0, k).hi, Pixel(maskPixels0, k)) % 256

\* C2 amended: the alpha stored for a processed pixel is the low 8 bits of
\* the nearest integer (ties to even) of the product evaluated in single
\* precision, float(imageAlpha) * (float(maskAlpha) * ((0.2125f * r +
\* 0.7154f * g) + 0.0721f * b)), every operation rounded to binary32; the
\* product stays below 2^24, inside the signed 32-bit range.
C2_Binary32ProductStored ==
    \A k \in DOMAIN stores :
        stores[k] = 1 =>
            LET x == Binary32Product(Pixel(pixels0, k).hi, Pixel(maskPixels0, k))
            IN /\ Pixel(pixels, k).hi = nearbyint_as_int(x) % 256
               /\ nearbyint_as_int(x) < 2 ^ 24

\* a finished call with a batch pixel and a tail pixel whose rounded product
\* is above 255, so that the store truncates it
C2_Witness ==
    /\ Done(1)
    /\ \E k \in CallRange(1) :
          /\ InBatch(1, k)
          /\ ExactRoundHalfEven(Pixel(pixels0, k).hi, Pixel(maskPixels0, k)) > 255
          /\ AlphaChanged(k)
    /\ \E k \in CallRange(1) :
          /\ InTail(1, k)
          /\ ExactRoundHalfEven(Pixel(pixels0, k).hi, Pixel(maskPixels0, k)) > 255

\* C3: when a call of the vectorized applyLuminanceMask has returned, the
\* image buffer is byte for byte the one the scalar fallback alone leaves
\* when run over all nPixels of the same input, for every batch width.
C3_VectorEqualsScalar ==
    Done(1) =>
        pixels = FallbackLoop(pixels0, maskPixels0, arg[1].pixels,
                              arg[1].maskPixels, arg[1].nPixels)

\* a finished call that ran two or more batches and changed the image
C3_Witness ==
    /\ Done(1)
    /\ Len(batches[1]) >= 2
    /\ pixels # pixels0
    /\ \E k \in CallRange(1) : InBatch(1, k) /\ AlphaChanged(k)

\* C4: the loop runs nPixels / W iterations over the pixel indices 0, W,
\* 2W, ... in order, both cursors advance by 4 * W bytes per iteration, and
\* the fallback is then called exactly once, with count nPixels % W, at
\* pixel index (nPixels / W) * W of both buffers.
C4_Dispatch ==
    \A t \in Threads : pc[t] # "off" =>
        LET n == arg[t].nPixels
            W == arg[t].size
        IN /\ i[t] <= n \div W
           /\ pixelsPtr[t] = arg[t].pixels + 4 * W * i[t]
           /\ maskPtr[t] = arg[t].maskPixels + 4 * W * i[t]
           /\ Len(batches[t]) = (IF pc[t] = "body" THEN i[t] + 1 ELSE i[t])
           /\ \A j \in 1..Len(batches[t]) :
                 batches[t][j] = CallBase(t) + (j - 1) * W
           /\ pc[t] \in {"loop", "body"} => fbCalls[t] = << >>
           /\ pc[t] \in {"fallback", "done"} =>
                 /\ i[t] = n \div W
                 /\ Len(fbCalls[t]) = 1
                 /\ fbCalls[t][1].nPixels = n % W
                 /\ fbCalls[t][1].pixels = arg[t].pixels + 4 * W * (n \div W)
                 /\ fbCalls[t][1].maskPixels =
                        arg[t].maskPixels + 4 * W * (n \div W)

\* the example: 37 pixels, width 8: 4 batches (32 pixels), 5 pixels scalar
C4_Witness ==
    /\ Done(1)
    /\ arg[1].nPixels = 37
    /\ arg[1].size = 8
    /\ Len(batches[1]) = 4
    /\ fbCalls[1][1].nPixels = 5
    /\ fbCalls[1][1].pixels = 4 * 32

\* C5: every call returns, and when it has returned every pixel of
\* 0..nPixels-1 was stored exactly once, no other pixel was stored, and no
\* pixel outside 0..nPixels-1 of either buffer was read or written.
C5_Returned ==
    Done(1) =>
        /\ \A k \in DOMAIN stores :
              stores[k] = (IF k \in CallRange(1) THEN 1 ELSE 0)
        /\ touched[1] \subseteq CallRange(1)
C5_TerminatesAllOnce == <>Done(1) /\ []C5_Returned

\* a finished 37-pixel call: batches and a tail, every pixel stored once
C5_Witness ==
    /\ Done(1)
    /\ arg[1].nPixels = 37
    /\ \A k \in CallRange(1) : stores[k] = 1
    /\ \E k \in CallRange(1) : InBatch(1, k)
    /\ \E k \in CallRange(1) : InTail(1, k)

\* C6: the alpha a call leaves in a pixel depends only on that pixel's alpha
\* and its mask pixel: whenever two calls have both returned, two pixels (at
\* the same index of the two calls or at different ones, in a batch or in a
\* scalar tail) that had equal alpha and equal mask pixels have equal alpha.
C6_PixelLocal ==
    (Done(1) /\ Done(2)) =>
        \A k1 \in CallRange(1), k2 \in CallRange(2) :
            (/\ Pixel(pixels0, k1).hi = Pixel(pixels0, k2).hi
             /\ Pixel(maskPixels0, k1) = Pixel(maskPixels0, k2))
            => Pixel(pixels, k1).hi = Pixel(pixels, k2).hi

\* two returned calls of different length whose pixels at one and the same
\* index agree, the first's in a batch and the second's in its scalar tail,
\* while their neighbours have another mask pixel
C6_Witness ==
    /\ Done(1) /\ Done(2)
    /\ arg[1].nPixels # arg[2].nPixels
    /\ \E j \in 0..(arg[2].nPixels - 1) :
          LET k1 == CallBase(1) + j
              k2 == CallBase(2) + j
          IN /\ k1 \in CallRange(1)
             /\ InBatch(1, k1) /\ InTail(2, k2)
             /\ Pixel(pixels0, k1).hi = Pixel(pixels0, k2).hi
             /\ Pixel(maskPixels0, k1) = Pixel(maskPixels0, k2)
             /\ Pixel(maskPixels0, k1 + 1) # Pixel(maskPixels0, k1)
             /\ AlphaChanged(k1)

\* C7: when a call has returned and the alpha of every mask pixel of its
\* range is 0, the alpha of every image pixel of its range is 0.
C7_ZeroMaskAlpha ==
    (Done(1) /\ \A k \in CallRange(1) : Pixel(maskPixels0, k).hi = 0) =>
        \A k \in CallRange(1) : Pixel(pixels, k).hi = 0

\* a returned call over coloured zero-alpha mask pixels that cleared the
\* alpha of an opaque-ish pixel in a batch and of one in the tail
C7_Witness ==
    /\ Done(1)
    /\ \A k \in CallRange(1) :
          Pixel(maskPixels0, k).hi = 0 /\ Pixel(maskPixels0, k).lo # 0
    /\ \E k \in CallRange(1) :
          InBatch(1, k) /\ Pixel(pixels0, k).hi > 0 /\ Pixel(pixels, k).hi = 0
    /\ \E k \in CallRange(1) :
          InTail(1, k) /\ Pixel(pixels0, k).hi > 0 /\ Pixel(pixels, k).hi = 0

\* C8: two calls running concurrently on the sub-ranges [0, k) and [k, n)
\* never read or write a pixel outside their own sub-range, and when both
\* have returned the image buffer is the one a single call over [0, n)
\* leaves, under every interleaving and for every batch width.
C8_DisjointRanges ==
    /\ \A t \in Threads : touched[t] \subseteq CallRange(t)
    /\ (Done(1) /\ Done(2)) =>
          \A size \in BatchWidths :
              pixels = ApplySerial(pixels0, maskPixels0, 0, 0,
                                   arg[1].nPixels + arg[2].nPixels, size)

\* both calls are in the middle of their work at the same time
C8_Witness ==
    /\ pc[1] = "body"
    /\ pc[2] = "fallback"
    /\ fb[2].i > 0 /\ fb[2].i < fb[2].nPixels
    /\ pixels # pixels0

\* C9: at every moment of a call the mask buffer is what it was before the
\* call: neither the vector path nor the scalar path writes to it.
C9_MaskReadOnly == maskPixels = maskPixels0

\* a returned call that stored through a batch and through the tail, over a
\* mask that is not all zero
C9_Witness ==
    /\ Done(1)
    /\ Len(batches[1]) >= 1
    /\ fbCalls[1][1].nPixels >= 1
    /\ pixels # pixels0
    /\ \E b \in DOMAIN maskPixels0 : maskPixels0[b] # 0

\* C10: for an opaque white mask pixel maskValue is 65025, and the alpha
\* stored for the image pixel is the low 8 bits of imageAlpha * 65025,
\* whatever imageAlpha is.
WhitePixel == [hi |-> 255, lo |-> 16777215]
C10_OpaqueWhiteMask ==
    /\ LaneMaskValue(WhitePixel) = FNormalize(65025, 0)
    /\ \A k \in DOMAIN stores :
          (stores[k] = 1 /\ Pixel(maskPixels0, k) = WhitePixel) =>
              Pixel(pixels, k).hi = (Pixel(pixels0, k).hi * 65025) % 256

\* a returned call that met imageAlpha = 200 under an opaque white mask pixel
\* in a batch
C10_Witness ==
    /\ Done(1)
    /\ \E k \in CallRange(1) :
          /\ InBatch(1, k)
          /\ Pixel(maskPixels0, k) = WhitePixel
          /\ Pixel(pixels0, k).hi = 200
          /\ Pixel(pixels, k).hi = (200 * 65025) % 256


\* C11: the template without a vector implementation hands the whole buffer
\* to the scalar fallback in one call, with the pointers and the count it was
\* given, and the buffer it leaves is the one fallbackLuminanceMask(pixels,
\* maskPixels, nPixels) leaves; no batch is ever processed.
C11_GenericDelegates ==
    /\ batches[1] = << >>
    /\ pc[1] = "generic" => fbCalls[1] = << >>
    /\ pc[1] \in {"fallback", "done"} =>
          fbCalls[1] = << [pixels |-> arg[1].pixels,
                           maskPixels |-> arg[1].maskPixels,
                           nPixels |-> arg[1].nPixels, i |-> 0] >>
    /\ Done(1) =>
          /\ pixels = FallbackLoop(pixels0, maskPixels0, arg[1].pixels,
                                   arg[1].maskPixels, arg[1].nPixels)
          /\ maskPixels = maskPixels0

C11_Witness ==
    /\ Done(1)
    /\ arg[1].nPixels >= 8
    /\ arg[1].pixels = 4
    /\ arg[1].maskPixels = 0
    /\ Len(fbCalls[1]) = 1
    /\ pixels # pixels0


\* C12: removeText returns false and removes nothing whenever pos is negative
\* or the shape has no cursor positions, and it never reads the list of
\* cursor positions at an index outside 0..size-1.
C12_RemoveTextGuarded ==
    call.op = "removeText" =>
        /\ (call.pos < 0 \/ call.size = 0) =>
              /\ ~call.succes
              /\ call.edits = 0
        /\ call.read # << >> => call.read[1] \in 0..(call.size - 1)

\* the chunks without child shapes in the order findTextChunkForIndex visits
\* them; what lies below a shape that is no chunk is not visited
RECURSIVE ChunkLeaves(_, _)
RECURSIVE ChunkLeavesFrom(_, _, _)
ChunkLeavesFrom(shape, path, k) ==
    IF k > Len(shape.shapes) THEN << >>
    ELSE ChunkLeaves(shape.shapes[k], Append(path, k))
         \o ChunkLeavesFrom(shape, path, k + 1)
ChunkLeaves(shape, path) ==
    IF ~shape.chunk THEN << >>
    ELSE IF shape.shapes = << >> THEN << [path |-> path, text |-> shape.text] >>
    ELSE ChunkLeavesFrom(shape, path, 1)

RECURSIVE TextBefore(_, _)
TextBefore(leaves, j) ==
    IF j <= 1 THEN 0 ELSE TextBefore(leaves, j - 1) + leaves[j - 1].text

\* the chunk an insertion at position p goes to, as the claim describes it:
\* the chunk that holds the character index of the cursor position (the
\* last one if p is beyond the list), clamped to the last character; the
\* shape itself if there is none and it has no child shapes. With no usable
\* position the character index is 0.
TargetChunk(shape, positions, p) ==
    LET leaves == ChunkLeaves(shape, << >>)
        totalSize == TextBefore(leaves, Len(leaves) + 1)
        index == IF p >= 0 /\ Len(positions) > 0
                 THEN qMin(positions[qMin(p, Len(positions) - 1) + 1].index,
                           totalSize - 1)
                 ELSE 0
        holding == { j \in 1..Len(leaves) :
                        /\ TextBefore(leaves, j) <= index
                        /\ index < TextBefore(leaves, j) + leaves[j].text }
    IN IF holding # {} THEN << leaves[CHOOSE j \in holding : TRUE].path >>
       ELSE IF shape.shapes = << >> THEN << << >> >>
       ELSE << >>

\* C13: insertText returns true exactly when a target chunk is resolved (the
\* chunk holding the clamped character index, or the shape itself when it
\* has no child shapes); then the text goes into that chunk, notifyChanged
\* is called once and one ContentChanged change is issued, which causes one
\* relayout; otherwise no text is inserted, nothing is signalled and the
\* layout is left alone.
C13_InsertWhenResolved ==
    [][call'.op = "insertText" =>
        LET target == TargetChunk(shapeTree, cursorPos, call'.pos)
        IN /\ call'.succes <=> target # << >>
           /\ call'.chunkShape = target
           /\ call'.succes =>
                 /\ call'.edits = 1
                 /\ shapeTree' = WithText(shapeTree, target[1],
                        ShapeAt(shapeTree, target[1]).text + call'.n)
                 /\ call'.notifyChanged = 1
                 /\ call'.changes = << "ContentChanged" >>
                 /\ call'.relayouts = 1
           /\ ~call'.succes =>
                 /\ call'.edits = 0
                 /\ shapeTree' = shapeTree
                 /\ cursorPos' = cursorPos
                 /\ call'.notifyChanged = 0
                 /\ call'.changes = << >>
                 /\ call'.relayouts = 0]_vars

\* an insertion beyond the last cursor position went into the second chunk
C13_Witness ==
    /\ call.op = "insertText"
    /\ call.succes
    /\ call.size > 0
    /\ call.pos > call.size - 1
    /\ call.chunkShape = << << 2 >> >>
    /\ call.relayouts = 1


\* C14: nextPos and previousPos return -1 when the shape has no cursor
\* positions; otherwise, in any sequence of nextPos and previousPos calls
\* that started from a position in 0..size-1, every returned position is in
\* 0..size-1, nextPos at the last position returns the last position and
\* previousPos at position 0 returns 0.
C14_CursorStaysInside ==
    call.op \in {"nextPos", "previousPos"} =>
        LET size == Len(cursorPos)
        IN /\ size = 0 => call.result = 0 - 1
           /\ (size > 0 /\ call.from \in 0..(size - 1)) =>
                 /\ call.pos \in 0..(size - 1)
                 /\ call.result \in 0..(size - 1)
                 /\ (call.op = "nextPos" /\ call.pos = size - 1) =>
                        call.result = size - 1
                 /\ (call.op = "nextPos" /\ call.pos < size - 1) =>
                        call.result = call.pos + 1
                 /\ (call.op = "previousPos" /\ call.pos = 0) =>
                        call.result = 0
                 /\ (call.op = "previousPos" /\ call.pos > 0) =>
                        call.result = call.pos - 1

\* nextPos was called at the last of several positions
C14_Witness ==
    /\ call.op = "nextPos"
    /\ Len(cursorPos) >= 2
    /\ call.from = 0
    /\ call.pos = Len(cursorPos) - 1
    /\ call.result = call.pos

\* C15: after setTextRenderingFromString(s), textRenderingString() returns s
\* if s is one of "optimizeSpeed", "optimizeLegibility",
\* "geometricPrecision", "auto", and "auto" for every other s; and
\* setTextRenderingFromString(textRenderingString()) leaves the state as it
\* was.
C15_TextRenderingRoundTrip ==
    /\ call.op = "setTextRenderingFromString" =>
          textRenderingString(textRendering) =
              IF call.string \in {"optimizeSpeed", "optimizeLegibility",
                                  "geometricPrecision", "auto"}
              THEN call.string ELSE "auto"
    /\ call.op = "restoreTextRendering" => textRendering = call.before
    /\ textRendering \in TextRenderings

\* a string that is no keyword was set over another hint, and read back
C15_Witness ==
    /\ call.op = "setTextRenderingFromString"
    /\ call.string = "optimizespeed"
    /\ call.before = "GeometricPrecision"
    /\ textRenderingString(textRendering) = "auto"


====
